---- MODULE Spec2Model ----
(***************************************************************************)
(* State-machine model of the Jasmine/Jest Allure reporter:                *)
(*   JasmineAllureReporter  (group/label/step stacks, running test),       *)
(*   JasmineAllureInterface (step, logStep, setup, label),                 *)
(*   WrappedStep            (run, endStep),                                *)
(*   ExecutableItemWrapper  (wrap, logStep) and AllureStep (endStep).      *)
(*                                                                         *)
(* JavaScript runs to completion: while a wrapped body executes            *)
(* synchronously (callStack non-empty) no host event and no promise        *)
(* continuation can run.  A body that returned a promise is "pending"      *)
(* until the promise settles; its continuations then run as one step.      *)
(*                                                                         *)
(* An item is modelled by its status, stage, detail message, labels and    *)
(* the number of times it was ended; names, timing, attachments,           *)
(* parameters and the detail trace are left out (no property reads them).  *)
(***************************************************************************)
EXTENDS Integers, Sequences, FiniteSets, TLC

(* ------------------------------ bounds -------------------------------- *)
MaxGroups == 4
MaxItems == 3
MaxDepth == 2
MaxLabels == 2

(* ------------------------- input alphabets ---------------------------- *)
SuiteNames == {"A", "B"}
WrapperName == "Test wrapper"
\* spec.testPath after path.relative()/split("/"): always at least one segment
SpecPaths == {<<"f.test.js">>, <<"user", "GET", "f.test.js">>}
\* SpecStatus enum
SpecStatuses == {"passed", "failed", "broken", "pending", "disabled", "excluded", "todo"}
PendingReasons == {"", "why"}
\* spec.failedExpectations: records of matcherName / message
FailureLists ==
    { <<>>,
      << [matcherName |-> "toBe", message |-> "<red>expected" ],
         [matcherName |-> "", message |-> "thrown" ] >> }
\* values user code throws or rejects with
\*   error1/error2 : Error objects (message and stack)
\*   partial       : an object with a message but no stack
\*   plain         : a truthy non-error value such as a string
\*   nullish       : null / undefined
Values == {"error1", "error2", "partial", "plain", "nullish"}
Statuses == {"passed", "failed", "broken", "skipped"}
HookKinds == {"before", "after"}

HasStack(v) == v \in {"error1", "error2"}
HasMessage(v) == v \in {"error1", "error2", "partial"}
Truthy(v) == v # "nullish"
Message(v) == CASE v = "error1" -> "boom1"
                [] v = "error2" -> "boom2"
                [] v = "partial" -> "half"
                [] OTHER -> ""
ForcedMessage == "Test ended unexpectedly before step could complete."
DefaultReason == "Suite disabled"

(* ------------------------------ state --------------------------------- *)
VARIABLES
    groups,             \* report: every AllureGroup ever started
    items,              \* report: every test, fixture and step ever started
    groupStack,         \* JasmineAllureReporter.groupStack (group ids)
    labelStack,         \* JasmineAllureReporter.labelStack
    runningTest,        \* JasmineAllureReporter.runningTest (0 = null)
    stepStack,          \* JasmineAllureReporter.stepStack (item ids)
    runningExecutable,  \* JasmineAllureReporter.runningExecutable (0 = null)
    isSuite,            \* JasmineAllureReporter.isSuite
    workerId,           \* process.env.JEST_WORKER_ID ("" = unset)
    callStack,          \* items whose wrapped body is executing synchronously
    hostStack,          \* history: the host's open suites / spec
    wellFormed,         \* history: every host event so far was properly nested
    scopeStack,         \* history: identity of each buffer of labelStack
    labelLog,           \* history: scope each reporter-level label went to
    nScopes,            \* history: label scopes created so far
    last                \* history: what the last operation did

vars == << groups, items, groupStack, labelStack, runningTest, stepStack,
           runningExecutable, isSuite, workerId, callStack, hostStack,
           wellFormed, scopeStack, labelLog, nScopes, last >>

reporterVars == << groupStack, labelStack, runningTest, stepStack,
                   runningExecutable, isSuite >>
histVars == << hostStack, wellFormed, scopeStack, labelLog, nScopes >>

(* ----------------------------- helpers -------------------------------- *)
Top(s) == s[Len(s)]
Pop(s) == IF Len(s) = 0 THEN s ELSE SubSeq(s, 1, Len(s) - 1)
RECURSIVE Reverse(_)
Reverse(s) == IF s = <<>> THEN <<>> ELSE Append(Reverse(Tail(s)), Head(s))
RECURSIVE Flatten(_)
Flatten(ss) == IF ss = <<>> THEN <<>> ELSE Head(ss) \o Flatten(Tail(ss))
RECURSIVE JoinPath(_)
JoinPath(segs) ==
    IF segs = <<>> THEN ""
    ELSE IF Len(segs) = 1 THEN segs[1]
    ELSE segs[1] \o "/" \o JoinPath(Tail(segs))
Range(s) == { s[i] : i \in 1..Len(s) }

\* strip-ansi: removes the colour escape sequences of a message
StripAnsi(m) == IF m = "<red>expected" THEN "expected" ELSE m

\* constructors.ts (not in the sources at hand): a fresh result has no status
InitStage == "scheduled"

NoLast == [ op |-> "init", raised |-> "none", item |-> 0, val |-> "none",
            outcome |-> "none", signal |-> "none", preStatus |-> "none",
            preSteps |-> <<>>, closed |-> <<>>, preTest |-> 0,
            preGroups |-> <<>>, preLabels |-> 0, exec |-> 0,
            reason |-> "", fails |-> <<>> ]

\* host: history, the suite the host had open around a suite when it entered
\* it (0: none, -1: not a suite of a properly nested stream)
NewGroup(name, parent) ==
    [ name |-> name, parent |-> parent, ended |-> 0, host |-> -1 ]

NewItem(kind, owner) ==
    [ kind |-> kind, owner |-> owner, status |-> "none", stage |-> InitStage,
      msg |-> "", labels |-> <<>>, ended |-> 0, body |-> "none",
      api |-> kind, born |-> 0, scopes |-> {},
      entry |-> [ groups |-> <<>>, labels |-> 0 ] ]

(* -------------------- JasmineAllureReporter: groups ------------------- *)
\* getCurrentGroup(): the top of groupStack, or null
getCurrentGroupBottom(stack) == IF Len(stack) = 0 THEN 0 ELSE stack[1]
getCurrentGroup(stack) == IF Len(stack) = 0 THEN 0 ELSE Top(stack)

\* (this.getCurrentGroup() || this.runtime).startGroup(name): the parent of
\* the new group (0 = the runtime root)
StartGroupParentRoot(stack) == 0
StartGroupParent(stack) == getCurrentGroup(stack)

\* if (this.runningTest != null) throw ...
TestOverlapBroken(rt) == FALSE
TestOverlap(rt) == rt # 0

\* describe-block labels of a test (suite mode)
SuiteLabelsCountsWrapper(stack, gs) ==
    (IF Len(stack) > 0 THEN << [name |-> "parentSuite", value |-> gs[stack[1]].name] >> ELSE <<>>)
    \o (IF Len(stack) > 1 THEN << [name |-> "suite", value |-> gs[stack[2]].name] >> ELSE <<>>)
    \o (IF Len(stack) > 2 THEN << [name |-> "subSuite", value |-> gs[stack[3]].name] >> ELSE <<>>)
SuiteLabels(stack, gs) ==
    (IF Len(stack) > 1 THEN << [name |-> "parentSuite", value |-> gs[stack[1]].name] >> ELSE <<>>)
    \o (IF Len(stack) > 2 THEN << [name |-> "suite", value |-> gs[stack[2]].name] >> ELSE <<>>)
    \o (IF Len(stack) > 3 THEN << [name |-> "subSuite", value |-> gs[stack[3]].name] >> ELSE <<>>)

\* file-path labels of a test (no describe block)
PathLabels(path) ==
    IF Len(path) > 1
    THEN << [name |-> "subSuite", value |-> path[Len(path)]],
            [name |-> "suite", value |-> path[Len(path) - 1]],
            [name |-> "parentSuite", value |-> JoinPath(SubSeq(path, 1, Len(path) - 2))],
            [name |-> "package", value |-> path[1]] >>
    ELSE <<>>

\* addLabel(name, value): push on the top label buffer, if there is one
addLabel(ls, l) ==
    IF Len(ls) > 0 THEN [ls EXCEPT ![Len(ls)] = Append(@, l)] ELSE ls

\* the thread label specStarted adds through addLabel
WithThread(ls, w) ==
    IF w # "" THEN addLabel(ls, [name |-> "thread", value |-> w]) ELSE ls

\* for (labels of labelStack) for (label of labels) allureTest.addLabel(...)
FlushLabelsTopOnly(ls) == IF ls = <<>> THEN <<>> ELSE Top(ls)
FlushLabels(ls) == Flatten(ls)

(* ------------------------------ Init ---------------------------------- *)
Init ==
    /\ groups = <<>>
    /\ items = <<>>
    /\ groupStack = <<>>
    /\ labelStack = << <<>> >>
    /\ runningTest = 0
    /\ stepStack = <<>>
    /\ runningExecutable = 0
    /\ isSuite = FALSE
    /\ workerId \in {"", "1"}
    /\ callStack = <<>>
    /\ hostStack = <<>>
    /\ wellFormed = TRUE
    /\ scopeStack = <<1>>
    /\ labelLog = <<>>
    /\ nScopes = 1
    /\ last = NoLast

\* host events are delivered between tasks only
Idle == callStack = <<>>

\* The host's own view of its event stream (history, read by no action's
\* effect on the reporter): hostStack holds the group of every suite entered
\* and not yet exited, and 0 for a spec entered and not yet exited.  An event
\* that does not fit the nesting ends well-formedness for good.
CanEnter == wellFormed /\ (hostStack = <<>> \/ Top(hostStack) # 0)
CanExitSpec == wellFormed /\ hostStack # <<>> /\ Top(hostStack) = 0
CanExitSuite == wellFormed /\ hostStack # <<>> /\ Top(hostStack) # 0

(* --------------------------- suiteStarted ----------------------------- *)
suiteStarted(name) ==
    /\ Idle
    /\ Len(groups) < MaxGroups
    /\ LET g == Len(groups) + 1 IN
       /\ isSuite' = TRUE
       /\ groups' = Append(groups,
              [NewGroup(name, StartGroupParent(groupStack)) EXCEPT
                 !.host = IF ~CanEnter THEN -1
                          ELSE IF hostStack = <<>> THEN 0 ELSE Top(hostStack)])
       /\ groupStack' = Append(groupStack, g)
       /\ labelStack' = Append(labelStack, <<>>)
       /\ scopeStack' = Append(scopeStack, nScopes + 1)
       /\ nScopes' = nScopes + 1
       /\ wellFormed' = CanEnter
       /\ hostStack' = IF CanEnter THEN Append(hostStack, g) ELSE <<>>
       /\ last' = [NoLast EXCEPT !.op = "suiteStarted", !.preGroups = groupStack]
    /\ UNCHANGED << items, runningTest, stepStack, runningExecutable, workerId,
                    callStack, labelLog >>

(* ---------------------------- specStarted ----------------------------- *)
\* the stacks after the "not using describe blocks" prelude of specStarted
PreludeGroups(path) ==
    IF isSuite THEN groups
    ELSE Append(groups, NewGroup(path[1], StartGroupParent(groupStack)))
PreludeGroupStack == IF isSuite THEN groupStack ELSE Append(groupStack, Len(groups) + 1)
PreludeLabelStackNoPush == labelStack
PreludeLabelStack == IF isSuite THEN labelStack ELSE Append(labelStack, <<>>)
PreludeScopeStack == IF isSuite THEN scopeStack ELSE Append(scopeStack, nScopes + 1)

\* labels put on the new test, in the order specStarted adds them
TestLabels(path, gstack, gs, ls) ==
    (IF isSuite THEN SuiteLabels(gstack, gs) ELSE <<>>)
    \o (IF ~isSuite THEN PathLabels(path) ELSE <<>>)
    \o FlushLabels(ls)

specStarted(path) ==
    /\ Idle
    /\ Len(groups) + (IF isSuite THEN 1 ELSE 2) <= MaxGroups
    /\ Len(items) < MaxItems
    /\ wellFormed' = CanEnter
    /\ hostStack' = IF CanEnter THEN Append(hostStack, 0) ELSE <<>>
    /\ UNCHANGED << stepStack, runningExecutable, isSuite, workerId, callStack, labelLog >>
    /\ LET gs1 == PreludeGroups(path)
           st1 == PreludeGroupStack
           ls1 == PreludeLabelStack
           sc1 == PreludeScopeStack
           w == Len(gs1) + 1
           t == Len(items) + 1
           gs2 == Append(gs1, NewGroup(WrapperName, getCurrentGroup(st1)))
           st2 == Append(st1, w)
           ls2 == WithThread(ls1, workerId)
           base == [NoLast EXCEPT !.op = "specStarted", !.preTest = runningTest,
                                  !.preGroups = groupStack, !.preLabels = Len(labelStack)]
       IN
       /\ nScopes' = IF isSuite THEN nScopes ELSE nScopes + 1
       /\ IF getCurrentGroup(st1) = 0
          THEN \* throw new Error("No active suite")
               /\ last' = [base EXCEPT !.raised = "No active suite"]
               /\ groups' = gs1 /\ groupStack' = st1 /\ labelStack' = ls1
               /\ scopeStack' = sc1
               /\ UNCHANGED << items, runningTest >>
          ELSE IF TestOverlap(runningTest)
          THEN \* throw new Error("Test is starting before other ended!")
               /\ last' = [base EXCEPT !.raised = "Test is starting before other ended!",
                                       !.item = t]
               /\ groups' = gs2 /\ groupStack' = st2 /\ labelStack' = ls1
               /\ scopeStack' = sc1
               /\ items' = Append(items,
                     [NewItem("test", w) EXCEPT
                        !.born = Len(labelLog),
                        !.entry = [groups |-> groupStack, labels |-> Len(labelStack)]])
               /\ UNCHANGED runningTest
          ELSE /\ last' = [base EXCEPT !.item = t]
               /\ groups' = gs2 /\ groupStack' = st2 /\ labelStack' = ls2
               /\ scopeStack' = sc1
               /\ runningTest' = t
               /\ items' = Append(items,
                     [NewItem("test", w) EXCEPT
                        !.stage = "running",
                        !.labels = TestLabels(path, st2, gs2, ls2),
                        !.born = Len(labelLog),
                        !.scopes = Range(sc1),
                        !.entry = [groups |-> groupStack, labels |-> Len(labelStack)]])

(* ----------------------------- specDone ------------------------------- *)
\* for (const step of this.stepStack.reverse()): the order steps are closed in
ForceCloseOrderOutermostFirst(stack) == stack
ForceCloseOrder(stack) == Reverse(stack)

\* the body of that loop, AllureStep.endStep() included
ForceClose(it) ==
    [it EXCEPT !.status = "broken", !.stage = "interrupted",
               !.msg = ForcedMessage, !.ended = @ + 1]

\* "Capture test result/status"
MapSpecStatusWithoutTodo(it, status, reason) ==
    IF status \in {"passed", "broken", "failed"}
    THEN [it EXCEPT !.status = status, !.stage = "finished"]
    ELSE IF status \in {"pending", "disabled", "excluded"}
    THEN [it EXCEPT !.status = "skipped", !.stage = "pending",
                    !.msg = IF reason # "" THEN reason ELSE DefaultReason]
    ELSE it
MapSpecStatus(it, status, reason) ==
    IF status \in {"passed", "broken", "failed"}
    THEN [it EXCEPT !.status = status, !.stage = "finished"]
    ELSE IF status \in {"pending", "disabled", "excluded", "todo"}
    THEN [it EXCEPT !.status = "skipped", !.stage = "pending",
                    !.msg = IF reason # "" THEN reason ELSE DefaultReason]
    ELSE it

\* findMessageAboutThrow: the first expectation without a matcher name
findMessageAboutThrow(fails) ==
    IF \E i \in 1..Len(fails) : fails[i].matcherName = ""
    THEN LET i == CHOOSE i \in 1..Len(fails) :
                    /\ fails[i].matcherName = ""
                    /\ \A j \in 1..(i - 1) : fails[j].matcherName # ""
         IN i
    ELSE 0

\* findAnyError: the first expectation
findAnyError(fails) == IF Len(fails) > 0 THEN 1 ELSE 0

\* "Capture exceptions"
CaptureException(it, fails) ==
    LET i == IF findMessageAboutThrow(fails) # 0 THEN findMessageAboutThrow(fails)
             ELSE findAnyError(fails)
    IN IF i # 0 THEN [it EXCEPT !.msg = StripAnsi(fails[i].message)] ELSE it

\* AllureTest.endTest / AllureGroup.endGroup
EndTest(it) == [it EXCEPT !.ended = @ + 1]
EndGroup(g) == [g EXCEPT !.ended = @ + 1]

specDone(status, reason, fails) ==
    /\ Idle
    /\ wellFormed' = CanExitSpec
    /\ hostStack' = IF CanExitSpec THEN Pop(hostStack) ELSE <<>>
    /\ UNCHANGED << runningExecutable, isSuite, workerId, callStack, labelLog, nScopes >>
    /\ LET base == [NoLast EXCEPT !.op = "specDone", !.preTest = runningTest,
                                  !.preSteps = stepStack, !.item = runningTest,
                                  !.preGroups = groupStack, !.preLabels = Len(labelStack)]
       IN
       IF runningTest = 0
       THEN \* throw new Error("specDone while no test is running")
            /\ last' = [base EXCEPT !.raised = "specDone while no test is running"]
            /\ UNCHANGED << groups, items, groupStack, labelStack, runningTest,
                            stepStack, scopeStack >>
       ELSE
         LET closed == IF Len(stepStack) > 0 THEN ForceCloseOrder(stepStack) ELSE <<>>
             its == [i \in DOMAIN items |->
                       IF i \in Range(closed) THEN ForceClose(items[i])
                       ELSE IF i = runningTest
                       THEN EndTest(CaptureException(
                                MapSpecStatus(items[i], status, reason), fails))
                       ELSE items[i]]
             b2 == [base EXCEPT !.closed = closed, !.val = status,
                                !.reason = reason, !.fails = fails]
         IN
         /\ items' = its
         /\ stepStack' = <<>>
         /\ runningTest' = 0
         /\ IF getCurrentGroup(groupStack) = 0
            THEN \* this.currentGroup throws "No active group"
                 /\ last' = [b2 EXCEPT !.raised = "No active group"]
                 /\ UNCHANGED << groups, groupStack, labelStack, scopeStack >>
            ELSE LET gs1 == [groups EXCEPT ![Top(groupStack)] = EndGroup(@)]
                     st1 == Pop(groupStack)
                 IN
                 IF isSuite
                 THEN /\ last' = b2
                      /\ groups' = gs1 /\ groupStack' = st1
                      /\ UNCHANGED << labelStack, scopeStack >>
                 ELSE IF getCurrentGroup(st1) = 0
                 THEN \* throw new Error("No active suite")
                      /\ last' = [b2 EXCEPT !.raised = "No active suite"]
                      /\ groups' = gs1 /\ groupStack' = st1
                      /\ UNCHANGED << labelStack, scopeStack >>
                 ELSE /\ last' = b2
                      /\ groups' = [gs1 EXCEPT ![Top(st1)] = EndGroup(@)]
                      /\ groupStack' = Pop(st1)
                      /\ labelStack' = Pop(labelStack)
                      /\ scopeStack' = Pop(scopeStack)

(* ----------------------------- suiteDone ------------------------------ *)
suiteDone ==
    /\ Idle
    /\ wellFormed' = CanExitSuite
    /\ hostStack' = IF CanExitSuite THEN Pop(hostStack) ELSE <<>>
    /\ UNCHANGED << items, runningTest, stepStack, runningExecutable, isSuite,
                    workerId, callStack, labelLog, nScopes >>
    /\ LET base == [NoLast EXCEPT !.op = "suiteDone", !.preTest = runningTest,
                                  !.preGroups = groupStack, !.preLabels = Len(labelStack)]
       IN
       IF getCurrentGroup(groupStack) = 0
       THEN \* throw new Error("No active suite.")
            /\ last' = [base EXCEPT !.raised = "No active suite."]
            /\ UNCHANGED << groups, groupStack, labelStack, scopeStack >>
       ELSE /\ last' = base
            /\ groups' = [groups EXCEPT ![Top(groupStack)] = EndGroup(@)]
            /\ groupStack' = Pop(groupStack)
            /\ labelStack' = Pop(labelStack)
            /\ scopeStack' = Pop(scopeStack)


(* ----------------------- ExecutableItemWrapper ------------------------ *)
\* wrap: this.stage = Stage.RUNNING, then the body is called
WrapStart(it) == [it EXCEPT !.stage = "running", !.body = "sync"]

\* wrap, catch (error): reading error.stack of null / undefined is a TypeError
\* that leaves wrap; any other value is kept as the result and returned
WrapRaises(v) == ~Truthy(v)

\* wrap, catch (error): what is recorded on the item
WrapCaught(it, v) ==
    IF HasStack(v) \/ HasMessage(v)
    THEN IF HasStack(v) /\ HasMessage(v)
         THEN [it EXCEPT !.status = "failed", !.stage = "finished", !.msg = Message(v)]
         ELSE it
    ELSE it

\* wrap, the branch for a result that is no promise
WrapCompletedKeepsNone(it) ==
    [it EXCEPT !.stage = "finished", !.body = "settled"]
WrapCompleted(it) ==
    [it EXCEPT !.status = IF @ = "none" THEN "passed" ELSE @,
               !.stage = "finished", !.body = "settled"]

\* wrap, promise.then(res => ...)
WrapResolved(it) ==
    [it EXCEPT !.status = IF @ = "none" THEN "passed" ELSE @,
               !.stage = "finished", !.body = "settled"]

\* wrap, promise.catch(error => ...)
WrapRejectedAsFailed(it, v) ==
    [it EXCEPT !.status = "failed", !.stage = "finished", !.body = "settled"]
WrapRejected(it, v) ==
    LET a == [it EXCEPT !.stage = "interrupted",
                        !.status = IF @ = "none" THEN "broken" ELSE @,
                        !.body = "settled"]
    IN IF Truthy(v) /\ HasStack(v) /\ HasMessage(v)
       THEN [a EXCEPT !.status = "failed", !.stage = "finished", !.msg = Message(v)]
       ELSE a

\* wrap, promise.catch: the handler ends with "result = error" and returns
\* nothing, so the promise wrap hands back is fulfilled, never rejected
WrapEchoesRejection(v) == FALSE

\* ExecutableItemWrapper.logStep
logStep(it, status) == [it EXCEPT !.stage = "finished", !.status = status]

\* AllureStep.endStep
endStep(it) == [it EXCEPT !.ended = @ + 1]

(* --------------- JasmineAllureReporter: steps, fixtures --------------- *)
pushStep(stack, i) == Append(stack, i)
popStep(stack) == Pop(stack)

\* JasmineAllureInterface.currentExecutable (0: currentTest throws)
currentExecutable(steps, re, rt) ==
    IF Len(steps) > 0 THEN Top(steps) ELSE IF re # 0 THEN re ELSE rt

CurrentExec == currentExecutable(stepStack, runningExecutable, runningTest)

Executing(i) == callStack # <<>> /\ Top(callStack) = i

(* ---------------- JasmineAllureInterface.step: the call --------------- *)
StepBegin ==
    /\ Len(items) < MaxItems
    /\ Len(callStack) < MaxDepth
    /\ UNCHANGED << groups, groupStack, labelStack, runningTest, runningExecutable,
                    isSuite, workerId, histVars >>
    /\ LET i == Len(items) + 1
           base == [NoLast EXCEPT !.op = "stepBegin", !.exec = CurrentExec]
       IN
       IF CurrentExec = 0
       THEN \* get currentTest throws "No active test"
            /\ last' = [base EXCEPT !.raised = "No active test"]
            /\ UNCHANGED << items, stepStack, callStack >>
       ELSE /\ last' = [base EXCEPT !.item = i]
            /\ items' = Append(items,
                  WrapStart([NewItem("step", CurrentExec) EXCEPT !.api = "step"]))
            /\ stepStack' = pushStep(stepStack, i)
            /\ callStack' = Append(callStack, i)

(* ------------------ JasmineAllureInterface.logStep -------------------- *)
LogStep(status) ==
    /\ Len(items) < MaxItems
    /\ UNCHANGED << groups, groupStack, labelStack, runningTest, runningExecutable,
                    isSuite, workerId, callStack, histVars >>
    /\ LET i == Len(items) + 1
           base == [NoLast EXCEPT !.op = "logStep", !.exec = CurrentExec]
       IN
       IF CurrentExec = 0
       THEN /\ last' = [base EXCEPT !.raised = "No active test"]
            /\ UNCHANGED << items, stepStack >>
       ELSE /\ last' = [base EXCEPT !.item = i, !.closed = <<i>>]
            /\ items' = Append(items,
                  endStep(logStep([NewItem("step", CurrentExec) EXCEPT !.api = "log"],
                                  status)))
            /\ stepStack' = popStep(pushStep(stepStack, i))

(* ------------------------ WrappedStep.logStep ------------------------- *)
\* the code of a step's body gives its own step a status
BodyLogStep(i, status) ==
    /\ i \in DOMAIN items
    /\ items[i].api = "step"
    /\ \/ Executing(i)
       \/ Idle /\ items[i].body = "pending"
    /\ items' = [items EXCEPT ![i] = logStep(@, status)]
    /\ last' = [NoLast EXCEPT !.op = "bodyLogStep", !.item = i,
                              !.preStatus = items[i].status,
                             !.preSteps = stepStack]
    /\ UNCHANGED << groups, reporterVars, workerId, callStack, histVars >>

(* ---------------- installHooks.makeWrapperAll: the call --------------- *)
\* the host runs a registered beforeAll/beforeEach ("before") or
\* afterAll/afterEach ("after") fixture
HookBegin(kind) ==
    /\ Idle
    /\ Len(items) < MaxItems
    /\ Len(callStack) < MaxDepth
    /\ UNCHANGED << groups, groupStack, labelStack, runningTest, stepStack,
                    isSuite, workerId, histVars >>
    /\ LET i == Len(items) + 1
           base == [NoLast EXCEPT !.op = "hookBegin"]
       IN
       IF getCurrentGroup(groupStack) = 0
       THEN \* reporter.currentGroup throws "No active group"
            /\ last' = [base EXCEPT !.raised = "No active group"]
            /\ UNCHANGED << items, runningExecutable, callStack >>
       ELSE /\ last' = [base EXCEPT !.item = i]
            /\ items' = Append(items,
                  WrapStart([NewItem("fixture", getCurrentGroup(groupStack))
                               EXCEPT !.api = kind]))
            /\ runningExecutable' = i
            /\ callStack' = Append(callStack, i)

(* --------------- JasmineAllureInterface.setup: the call --------------- *)
SetupBegin ==
    /\ Len(items) < MaxItems
    /\ Len(callStack) < MaxDepth
    /\ UNCHANGED << groups, groupStack, labelStack, runningTest, stepStack,
                    isSuite, workerId, histVars >>
    /\ LET i == Len(items) + 1
           base == [NoLast EXCEPT !.op = "setupBegin"]
       IN
       IF getCurrentGroup(groupStack) = 0
       THEN /\ last' = [base EXCEPT !.raised = "No active group"]
            /\ UNCHANGED << items, runningExecutable, callStack >>
       ELSE /\ last' = [base EXCEPT !.item = i]
            /\ items' = Append(items,
                  WrapStart([NewItem("fixture", getCurrentGroup(groupStack))
                               EXCEPT !.api = "setup"]))
            /\ runningExecutable' = i
            /\ callStack' = Append(callStack, i)

(* -------- what step / setup / the hook wrapper do with the result ----- *)
\* WrappedStep.endStep: reporter.popStep(), then step.endStep()
\* setup / hook wrapper: reporter.runningExecutable = null
\* `echo` tells whether the caller is handed the failure (throw, rejected
\* promise, done.fail) or a normal completion (return, fulfilled, done())
Finish(i, it, base, echo) ==
    LET api == it.api
        sig == IF api \in HookKinds THEN (IF echo THEN "fail" ELSE "done") ELSE "none"
    IN
    /\ last' = [base EXCEPT !.signal = sig]
    /\ IF api = "step"
       THEN /\ items' = [items EXCEPT ![i] = endStep(it)]
            /\ stepStack' = popStep(stepStack)
            /\ UNCHANGED runningExecutable
       ELSE /\ items' = [items EXCEPT ![i] = it]
            /\ runningExecutable' = 0
            /\ UNCHANGED stepStack

(* ------------------- the body returns a plain value ------------------- *)
BodyReturn(i) ==
    /\ Executing(i)
    /\ callStack' = Pop(callStack)
    /\ Finish(i, WrapCompleted(items[i]),
              [NoLast EXCEPT !.op = "bodyReturn", !.item = i, !.outcome = "returned",
                             !.preStatus = items[i].status,
                             !.preSteps = stepStack],
              FALSE)
    /\ UNCHANGED << groups, groupStack, labelStack, runningTest, isSuite, workerId,
                    histVars >>

(* ------------------------- the body throws ---------------------------- *)
BodyThrow(i, v) ==
    /\ Executing(i)
    /\ callStack' = Pop(callStack)
    /\ UNCHANGED << groups, groupStack, labelStack, runningTest, isSuite, workerId,
                    histVars >>
    /\ LET base == [NoLast EXCEPT !.op = "bodyThrow", !.item = i, !.val = v,
                                  !.preStatus = items[i].status,
                             !.preSteps = stepStack]
       IN
       IF WrapRaises(v)
       THEN \* the TypeError leaves wrap: step() ends the step and rethrows,
            \* setup() and the hook wrapper let it pass
            /\ last' = [base EXCEPT !.outcome = "raised", !.raised = "TypeError"]
            /\ IF items[i].api = "step"
               THEN /\ items' = [items EXCEPT ![i] = endStep([@ EXCEPT !.body = "settled"])]
                    /\ stepStack' = popStep(stepStack)
               ELSE /\ items' = [items EXCEPT ![i].body = "settled"]
                    /\ UNCHANGED stepStack
            /\ UNCHANGED runningExecutable
       ELSE Finish(i, WrapCompleted(WrapCaught(items[i], v)),
                   [base EXCEPT !.outcome = "returned"], FALSE)

(* -------------------- the body returns a promise ---------------------- *)
\* also a callback-style fixture: the hook wrapper turns done / done.fail
\* (or a throw of the fixture) into a promise before wrap sees it
BodyReturnPromise(i) ==
    /\ Executing(i)
    /\ callStack' = Pop(callStack)
    /\ items' = [items EXCEPT ![i].body = "pending"]
    /\ last' = [NoLast EXCEPT !.op = "bodyPromise", !.item = i, !.outcome = "promise",
                              !.preStatus = items[i].status,
                             !.preSteps = stepStack]
    /\ UNCHANGED << groups, reporterVars, workerId, histVars >>

(* ----------------------- the promise is fulfilled --------------------- *)
SettleResolve(i) ==
    /\ Idle
    /\ i \in DOMAIN items
    /\ items[i].body = "pending"
    /\ Finish(i, WrapResolved(items[i]),
              [NoLast EXCEPT !.op = "resolve", !.item = i, !.outcome = "fulfilled",
                             !.preStatus = items[i].status,
                             !.preSteps = stepStack],
              FALSE)
    /\ UNCHANGED << groups, groupStack, labelStack, runningTest, isSuite, workerId,
                    callStack, histVars >>

(* ----------------------- the promise is rejected ---------------------- *)
SettleReject(i, v) ==
    /\ Idle
    /\ i \in DOMAIN items
    /\ items[i].body = "pending"
    /\ Finish(i, WrapRejected(items[i], v),
              [NoLast EXCEPT !.op = "reject", !.item = i, !.val = v,
                             !.outcome = IF WrapEchoesRejection(v) THEN "rejected"
                                         ELSE "fulfilled",
                             !.preStatus = items[i].status,
                             !.preSteps = stepStack],
              WrapEchoesRejection(v))
    /\ UNCHANGED << groups, groupStack, labelStack, runningTest, isSuite, workerId,
                    callStack, histVars >>

(* -------------------- JasmineAllureInterface.label -------------------- *)
UserLabel(n) == [name |-> "tag", value |-> ToString(n)]

Label ==
    /\ Len(labelLog) < MaxLabels
    /\ LET n == Len(labelLog) + 1 IN
       IF runningTest # 0
       THEN \* this.reporter.currentTest.addLabel(name, value)
            /\ items' = [items EXCEPT ![runningTest].labels = Append(@, UserLabel(n))]
            /\ labelLog' = Append(labelLog, 0)
            /\ UNCHANGED labelStack
       ELSE \* currentTest throws: this.reporter.addLabel(name, value)
            /\ labelStack' = addLabel(labelStack, UserLabel(n))
            /\ labelLog' = Append(labelLog, IF scopeStack = <<>> THEN 0 ELSE Top(scopeStack))
            /\ UNCHANGED items
    /\ last' = [NoLast EXCEPT !.op = "label", !.preTest = runningTest]
    /\ UNCHANGED << groups, groupStack, runningTest, stepStack, runningExecutable,
                    isSuite, workerId, callStack, hostStack, wellFormed, scopeStack,
                    nScopes >>

(* --------------------------- specifications --------------------------- *)
\* The host's event stream, in any order, with or without a worker id.
NextHost ==
    \/ \E name \in SuiteNames : suiteStarted(name)
    \/ \E path \in SpecPaths : specStarted(path)
    \/ \E st \in {"passed", "pending"} : specDone(st, "", <<>>)
    \/ suiteDone

SpecHost == Init /\ [][NextHost]_vars

\* The reporter of a run that is not parallelised (no worker id).
InitExec == Init /\ workerId = ""

\* The host's event stream, in any order up to and including the first event
\* that breaks the nesting, and labels added by user code at any time.
NextLabels ==
    \/ wellFormed /\ suiteStarted("A")
    \/ wellFormed /\ specStarted(<<"f.test.js">>)
    \/ wellFormed /\ specDone("passed", "", <<>>)
    \/ wellFormed /\ suiteDone
    \/ Label

SpecLabels == InitExec /\ [][NextLabels]_vars

\* The host's event stream, and steps whose bodies return at once or return
\* a promise that is fulfilled later, or never.
NextSteps ==
    \/ suiteStarted("A")
    \/ specStarted(<<"f.test.js">>)
    \/ specDone("passed", "", <<>>)
    \/ suiteDone
    \/ StepBegin
    \/ \E i \in DOMAIN items : BodyReturn(i)
    \/ \E i \in DOMAIN items : BodyReturnPromise(i)
    \/ \E i \in DOMAIN items : SettleResolve(i)

SpecSteps == InitExec /\ [][NextSteps]_vars

\* Steps and fixtures run through the executable wrapper with every way a
\* body can complete, under a host that runs bare specs of one file.
NextExec ==
    \/ specStarted(<<"f.test.js">>)
    \/ specDone("passed", "", <<>>)
    \/ StepBegin
    \/ \E st \in {"skipped"} : LogStep(st)
    \/ \E i \in DOMAIN items, st \in {"skipped"} : BodyLogStep(i, st)
    \/ \E k \in HookKinds : HookBegin(k)
    \/ SetupBegin
    \/ \E i \in DOMAIN items : BodyReturn(i)
    \/ \E i \in DOMAIN items, v \in Values : BodyThrow(i, v)
    \/ \E i \in DOMAIN items : BodyReturnPromise(i)
    \/ \E i \in DOMAIN items : SettleResolve(i)
    \/ \E i \in DOMAIN items, v \in Values : SettleReject(i, v)

SpecExec == InitExec /\ [][NextExec]_vars

\* The specs of a file without describe blocks and the fixtures the host runs
\* around them, with every way a fixture's body can complete.
NextFixtures ==
    \/ specStarted(<<"f.test.js">>)
    \/ \E st \in {"passed", "failed"} : specDone(st, "", <<>>)
    \/ \E k \in HookKinds : HookBegin(k)
    \/ \E i \in DOMAIN items : BodyReturn(i)
    \/ \E i \in DOMAIN items, v \in Values : BodyThrow(i, v)
    \/ \E i \in DOMAIN items : BodyReturnPromise(i)
    \/ \E i \in DOMAIN items : SettleResolve(i)
    \/ \E i \in DOMAIN items, v \in Values : SettleReject(i, v)

SpecFixtures == InitExec /\ [][NextFixtures]_vars

\* The specs of a file without describe blocks, with every outcome a spec can
\* be reported with.
NextOutcome ==
    \/ specStarted(<<"f.test.js">>)
    \/ \E st \in SpecStatuses, reason \in PendingReasons, fails \in FailureLists :
          specDone(st, reason, fails)

SpecOutcome == InitExec /\ [][NextOutcome]_vars

(* ======================= properties of the reporter =================== *)
Tests == { i \in DOMAIN items : items[i].kind = "test" }
Fixtures == { i \in DOMAIN items : items[i].kind = "fixture" }
Steps == { i \in DOMAIN items : items[i].kind = "step" }
BodyRunning(i) == items[i].body \in {"sync", "pending"}
IsError(v) == HasStack(v) /\ HasMessage(v)
OverlapError == "Test is starting before other ended!"

\* C1: at most one Test is running at any time, and a spec-entered event that
\* arrives while a Test is running raises an error and leaves that Test the
\* running one.
C1_NoOverlappingTests ==
    /\ \A i \in Tests : items[i].stage = "running" => i = runningTest
    /\ runningTest # 0 => runningTest \in Tests
    /\ (last.op = "specStarted" /\ last.preTest # 0) =>
          /\ last.raised # "none"
          /\ runningTest = last.preTest
          /\ items[last.preTest].stage = "running"

C1_Witness ==
    /\ last.op = "specStarted"
    /\ last.preTest # 0
    /\ last.raised = OverlapError
    /\ runningTest = last.preTest

\* C2: a body that synchronously throws an error with a message and a stack
\* leaves its item finished / failed with the error's message, and the same
\* error is thrown on to the caller of the wrapped function.
C2_SyncThrowRecordedAndRethrown ==
    (last.op = "bodyThrow" /\ IsError(last.val)) =>
        /\ items[last.item].stage = "finished"
        /\ items[last.item].status = "failed"
        /\ items[last.item].msg = Message(last.val)
        /\ last.outcome = "raised"
        /\ last.raised = last.val

\* C3: a rejection of the promise a body returned is echoed: the promise the
\* wrapper hands back rejects too, and a host fixture signals done.fail.
C3_RejectionEchoed ==
    last.op = "reject" =>
        /\ last.outcome = "rejected"
        /\ (items[last.item].api \in HookKinds => last.signal = "fail")

\* C4: in a properly nested stream of suite events every suite's Group is a
\* child of the Group of the suite open directly around it (of the runtime
\* root when there is none), it sits on the group stack at its nesting depth
\* while it is open, and the group stack is empty once no suite or spec is
\* open.
C4_GroupTreeMatchesNesting ==
    /\ \A g \in DOMAIN groups : groups[g].host # -1 => groups[g].parent = groups[g].host
    /\ wellFormed =>
          /\ \A k \in DOMAIN hostStack :
                hostStack[k] # 0 =>
                   /\ k <= Len(groupStack)
                   /\ groupStack[k] = hostStack[k]
                   /\ groups[hostStack[k]].ended = 0
          /\ hostStack = <<>> => groupStack = <<>>

C4_Witness ==
    /\ wellFormed
    /\ hostStack = <<>>
    /\ \E g, h \in DOMAIN groups :
          /\ groups[g].host = 0
          /\ groups[h].host = g
          /\ groups[h].parent = g
          /\ groups[g].ended = 1
          /\ groups[h].ended = 1

\* C5: a label added at reporter level (no Test running) to a scope is on
\* every Test started later while that scope is open, however deep; user
\* labels are on a Test in the order they were added; and such a label is on
\* no Test started before it was added.
\* the number n of the user label l = UserLabel(n), 0 for any other label
TagOf(l) ==
    IF \E n \in DOMAIN labelLog : l = UserLabel(n)
    THEN CHOOSE n \in DOMAIN labelLog : l = UserLabel(n)
    ELSE 0

C5_LabelsInherited ==
    \A t \in Tests :
        LET tags == [p \in DOMAIN items[t].labels |-> TagOf(items[t].labels[p])] IN
        /\ \A n \in DOMAIN labelLog :
              /\ (labelLog[n] # 0 /\ n <= items[t].born /\ labelLog[n] \in items[t].scopes)
                    => \E p \in DOMAIN tags : tags[p] = n
              /\ (labelLog[n] # 0 /\ n > items[t].born)
                    => \A p \in DOMAIN tags : tags[p] # n
        /\ \A p, q \in DOMAIN tags :
              (p < q /\ tags[p] # 0 /\ tags[q] # 0) => tags[p] < tags[q]

C5_Witness ==
    \E t1, t2 \in Tests :
        \E n, m \in DOMAIN labelLog :
            /\ n < m
            /\ labelLog[n] = 1
            /\ labelLog[m] # 0 /\ labelLog[m] # 1
            /\ items[t1].born < n
            /\ items[t2].born >= m
            /\ Cardinality(items[t2].scopes) >= 2
            /\ \E p, q \in DOMAIN items[t2].labels :
                  /\ p < q
                  /\ items[t2].labels[p] = UserLabel(n)
                  /\ items[t2].labels[q] = UserLabel(m)

\* C6: spec-exited for a running Test with steps still open closes every open
\* step, innermost first, as broken / interrupted with the "ended
\* unexpectedly" message, leaves the step stack empty, and (the host's events
\* having been properly nested) raises nothing.
C6_OpenStepsForceClosed ==
    (last.op = "specDone" /\ last.preTest # 0 /\ Len(last.preSteps) >= 1) =>
        /\ last.closed = Reverse(last.preSteps)
        /\ \A i \in Range(last.preSteps) :
              /\ items[i].status = "broken"
              /\ items[i].stage = "interrupted"
              /\ items[i].msg = ForcedMessage
              /\ items[i].ended >= 1
        /\ stepStack = <<>>
        /\ wellFormed => last.raised = "none"

C6_Witness ==
    /\ last.op = "specDone"
    /\ last.preTest # 0
    /\ Len(last.preSteps) = 2
    /\ items[last.preSteps[2]].owner = last.preSteps[1]
    /\ last.closed = << last.preSteps[2], last.preSteps[1] >>
    /\ last.raised = "none"
    /\ wellFormed

\* C7: whenever a step is ended it is the step on top of the step stack, and
\* ending it removes exactly that step; no step is ended while a step it
\* contains is still open.
StepEnded ==
    /\ last.op \in {"bodyReturn", "bodyThrow", "resolve", "reject"}
    /\ items[last.item].api = "step"

C7_StepsCloseLifo ==
    /\ StepEnded =>
          /\ last.preSteps # <<>>
          /\ Top(last.preSteps) = last.item
          /\ stepStack = Pop(last.preSteps)
    /\ \A s \in Steps :
          (items[s].ended = 0 /\ items[s].owner \in Steps) => items[items[s].owner].ended = 0

\* C8: while a fixture body runs and no step is open, the current executable
\* is a Fixture whose body is still running.
C8_FixtureIsCurrentExecutable ==
    ((\E f \in Fixtures : BodyRunning(f)) /\ stepStack = <<>>) =>
        /\ CurrentExec # 0
        /\ CurrentExec \in Fixtures
        /\ BodyRunning(CurrentExec)

\* C9: a body with no status set whose promise rejects with a value that has
\* neither message nor stack leaves its item broken / interrupted with no
\* detail message.
C9_PlainRejectionIsBroken ==
    (last.op = "reject" /\ last.preStatus = "none"
        /\ ~HasMessage(last.val) /\ ~HasStack(last.val)) =>
        /\ items[last.item].status = "broken"
        /\ items[last.item].stage = "interrupted"
        /\ items[last.item].msg = ""

C9_Witness ==
    /\ last.op = "reject"
    /\ last.preStatus = "none"
    /\ last.val = "plain"
    /\ items[last.item].status = "broken"

\* C10: a body that synchronously throws a value without both a message and
\* a stack leaves its item broken, with no detail message.
C10_NonErrorThrowIsBroken ==
    (last.op = "bodyThrow" /\ ~IsError(last.val)) =>
        /\ items[last.item].status = "broken"
        /\ items[last.item].msg = ""

\* C11: a wrapped body that returns a plain value, or whose promise resolves,
\* while its item has no status, leaves the item passed / finished; a step
\* run through step(name, body) that returns while it is the top of the step
\* stack is ended once and is on the step stack no more.
C11_NormalCompletionPasses ==
    (last.op \in {"bodyReturn", "resolve"} /\ last.preStatus = "none") =>
        /\ items[last.item].status = "passed"
        /\ items[last.item].stage = "finished"
        /\ (/\ last.op = "bodyReturn"
            /\ items[last.item].api = "step"
            /\ last.preSteps # <<>>
            /\ Top(last.preSteps) = last.item) =>
               /\ last.item \notin Range(stepStack)
               /\ stepStack = Pop(last.preSteps)
               /\ items[last.item].ended = 1

C11_Witness ==
    /\ last.op = "bodyReturn"
    /\ last.preStatus = "none"
    /\ items[last.item].api = "step"
    /\ Top(last.preSteps) = last.item
    /\ items[last.item].status = "passed"
    /\ items[last.item].stage = "finished"
    /\ last.item \notin Range(stepStack)
    /\ \E j \in DOMAIN items :
          /\ items[j].api = "setup"
          /\ items[j].status = "passed"
          /\ items[j].body = "settled"

\* C12: a status an item already has when its body completes is
\* the item's status afterwards, however the body completes (return,
\* resolve, throw or reject).
C12_StatusNeverOverwritten ==
    (last.op \in {"bodyReturn", "bodyThrow", "resolve", "reject"}
        /\ last.preStatus # "none") =>
        items[last.item].status = last.preStatus

\* C13: in suite mode, the host's events having been properly nested, a Test
\* started while the suites S1 (outermost), S2, S3 are open carries the labels
\* parentSuite = name of S1, suite = name of S2 and subSuite = name of S3,
\* each exactly when that level is open, and none of its labels has the
\* "Test wrapper" Group's name as its value.
IsOpenSuite(g) == g # 0
OpenSuites == SelectSeq(hostStack, IsOpenSuite)
IsSuiteLabel(l) == l.name \in {"parentSuite", "suite", "subSuite"}
LevelLabel(name, level) ==
    IF Len(OpenSuites) >= level
    THEN << [name |-> name, value |-> groups[OpenSuites[level]].name] >>
    ELSE <<>>

C13_SuiteLabelsFollowNesting ==
    (last.op = "specStarted" /\ last.raised = "none" /\ isSuite /\ wellFormed) =>
        /\ SelectSeq(items[last.item].labels, IsSuiteLabel)
              = LevelLabel("parentSuite", 1) \o LevelLabel("suite", 2)
                   \o LevelLabel("subSuite", 3)
        /\ \A p \in DOMAIN items[last.item].labels :
              items[last.item].labels[p].value # WrapperName

C13_Witness ==
    /\ last.op = "specStarted"
    /\ last.raised = "none"
    /\ isSuite
    /\ wellFormed
    /\ Len(OpenSuites) = 2
    /\ groups[OpenSuites[1]].name = "A"
    /\ groups[OpenSuites[2]].name = "B"
    /\ SelectSeq(items[last.item].labels, IsSuiteLabel)
          = << [name |-> "parentSuite", value |-> "A"], [name |-> "suite", value |-> "B"] >>

\* C14: a fixture the host invokes is a Fixture owned by the Group that is
\* the top of the group stack at that moment; a Fixture's status changes only
\* when its own body completes; spec-exited changes no Fixture; and the
\* completion of a Fixture's body changes no Test.
Completions == {"bodyReturn", "bodyThrow", "resolve", "reject"}

C14_FixtureIndependentOfTest ==
    [][ /\ (last'.op = "hookBegin" /\ last'.raised = "none") =>
              /\ groupStack # <<>>
              /\ items'[last'.item].kind = "fixture"
              /\ items'[last'.item].owner = Top(groupStack)
              /\ last'.item \notin DOMAIN items
        /\ \A f \in Fixtures :
              items'[f].status # items[f].status =>
                  /\ last'.op \in Completions
                  /\ last'.item = f
        /\ last'.op = "specDone" => \A f \in Fixtures : items'[f] = items[f]
        /\ (last'.op \in Completions /\ last'.item \in Fixtures) =>
              \A t \in Tests : items'[t] = items[t]
      ]_vars

C14_Witness ==
    /\ last.op = "specDone"
    /\ last.preTest # 0
    /\ items[last.preTest].status = "passed"
    /\ \E f \in Fixtures :
          /\ items[f].api \in HookKinds
          /\ items[f].owner = items[last.preTest].owner
          /\ groups[items[f].owner].name = WrapperName
          /\ items[f].status = "failed"
          /\ items[f].body = "settled"
          /\ f > last.preTest

\* C15: suite-exited never raises: outside suite mode, while a Test is
\* running, or with no Group open, the event returns normally.
C15_SuiteDoneNeverRaises ==
    last.op = "suiteDone" => last.raised = "none"

\* C16: no item is finalized twice: every Step and every Test is ended at
\* most once and every Group is closed at most once, also when a step's
\* body settles after spec-exited has force-closed the step.
C16_NothingFinalizedTwice ==
    /\ \A i \in DOMAIN items : items[i].ended <= 1
    /\ \A g \in DOMAIN groups : groups[g].ended <= 1

\* C17: spec-exited gives the running Test the status the spec was reported
\* with when that is passed, failed or broken, with stage finished; a spec
\* reported pending, disabled, excluded or todo gives status skipped and,
\* when the spec has no failure records, the pending reason as the detail
\* message, or the default reason when none was given.
C17_SpecStatusMapped ==
    (last.op = "specDone" /\ last.preTest # 0) =>
        LET t == items[last.preTest] IN
        /\ last.val \in {"passed", "failed", "broken"} =>
              /\ t.status = last.val
              /\ t.stage = "finished"
        /\ last.val \in {"pending", "disabled", "excluded", "todo"} =>
              /\ t.status = "skipped"
              /\ last.fails = <<>> =>
                    t.msg = (IF last.reason # "" THEN last.reason ELSE DefaultReason)
        /\ t.ended = 1

C17_Witness ==
    /\ last.op = "specDone"
    /\ last.preTest # 0
    /\ last.val = "todo"
    /\ last.reason = ""
    /\ last.fails = <<>>
    /\ items[last.preTest].status = "skipped"
    /\ items[last.preTest].msg = DefaultReason
    /\ \E u \in Tests :
          /\ items[u].status = "failed"
          /\ items[u].stage = "finished"
          /\ items[u].ended = 1

\* C18: in every state the host's events can lead to, every Group on the
\* group stack is a child of the Group directly below it, the bottom one a
\* child of the runtime root; and whenever a Test is running, the top of the
\* group stack is the "Test wrapper" Group that holds that Test.
GroupStackIsChain ==
    \A k \in DOMAIN groupStack :
        groups[groupStack[k]].parent = (IF k = 1 THEN 0 ELSE groupStack[k - 1])

RunningTestUnderTop ==
    runningTest # 0 =>
        /\ groupStack # <<>>
        /\ groups[Top(groupStack)].name = WrapperName
        /\ items[runningTest].owner = Top(groupStack)

C18_StackIsPathToTest ==
    /\ GroupStackIsChain
    /\ RunningTestUnderTop

\* C18, amended: the group stack is such a chain in every state the host's
\* events can lead to; and in every state reached by properly nested events,
\* whenever a Test is running the top of the group stack is the "Test
\* wrapper" Group that holds that Test.
C18_StackIsPathWhenNested ==
    /\ GroupStackIsChain
    /\ wellFormed => RunningTestUnderTop

C18_Witness ==
    /\ wellFormed
    /\ runningTest # 0
    /\ Len(groupStack) = 3
    /\ groups[groupStack[1]].name = "A"
    /\ groups[groupStack[2]].name = "B"
    /\ groups[groupStack[3]].name = WrapperName
    /\ items[runningTest].owner = groupStack[3]
    /\ \E g \in DOMAIN groups : groups[g].ended = 1

\* C19: the host's events being properly nested, the spec-exited of a Test
\* leaves the group stack as it was before that Test's spec-entered and the
\* label stack as deep as it was then, in suite mode and outside it; every
\* Group pushed for the spec is closed, no Test is running, and nothing is
\* raised.
C19_SpecRestoresStacks ==
    (last.op = "specDone" /\ last.preTest # 0 /\ wellFormed) =>
        LET e == items[last.preTest].entry IN
        /\ last.raised = "none"
        /\ groupStack = e.groups
        /\ Len(labelStack) = e.labels
        /\ runningTest = 0
        /\ Len(last.preGroups) = Len(e.groups) + (IF isSuite THEN 1 ELSE 2)
        /\ \A k \in DOMAIN last.preGroups :
              k > Len(e.groups) => groups[last.preGroups[k]].ended = 1

C19_Witness ==
    /\ last.op = "specDone"
    /\ last.preTest # 0
    /\ wellFormed
    /\ ~isSuite
    /\ Len(last.preGroups) = 2
    /\ groups[last.preGroups[2]].name = WrapperName
    /\ groups[last.preGroups[1]].ended = 1
    /\ groups[last.preGroups[2]].ended = 1
    /\ groupStack = <<>>
    /\ Len(labelStack) = 1
    /\ items[last.preTest].entry.labels = 1

\* C20: the host's events being properly nested, the suite-mode flag is set
\* exactly while at least one declared suite is open; so a spec entered with
\* no suite open, also after a suite was entered and exited, gets a file
\* Group below its wrapper, and its Test is started.
C20_SuiteModeTracksOpenSuites ==
    wellFormed =>
        /\ isSuite <=> (\E k \in DOMAIN hostStack : hostStack[k] # 0)
        /\ (last.op = "specStarted" /\ hostStack = << 0 >>) =>
              /\ last.raised = "none"
              /\ runningTest = last.item
              /\ runningTest # 0
              /\ Len(groupStack) = 2

\* C21: a spec-entered that arrives while a Test is running is rejected with
\* the reporter as it was before the event: the group stack and the depth of
\* the label stack are unchanged, the running Test is the same, and the
\* report has no Test that neither runs nor was ever ended.
C21_RejectedSpecLeavesState ==
    (last.op = "specStarted" /\ last.preTest # 0) =>
        /\ last.raised = OverlapError
        /\ runningTest = last.preTest
        /\ groupStack = last.preGroups
        /\ Len(labelStack) = last.preLabels
        /\ \A t \in Tests : t # runningTest => items[t].ended >= 1

\* C22: every Test carries at most one thread label; a Test started while a
\* worker id is set, the second and later Tests of a suite included, carries
\* exactly one, and a Test started without a worker id carries none.
IsThreadLabel(l) == l.name = "thread"
ThreadLabels(t) == SelectSeq(items[t].labels, IsThreadLabel)

C22_OneThreadLabel ==
    /\ \A t \in Tests : Len(ThreadLabels(t)) <= 1
    /\ (last.op = "specStarted" /\ last.raised = "none") =>
          Len(ThreadLabels(last.item)) = (IF workerId # "" THEN 1 ELSE 0)

====
